---------------------------- MODULE Spec2Model ----------------------------
(***************************************************************************)
(* Model of monitor_parts.py: one scheduled run fetches a sheet snapshot,  *)
(* loads the pickled previous snapshot, detects changes, alerts and saves. *)
(*                                                                         *)
(* A cell is a Python str, modelled as a sequence of one-character         *)
(* strings so that str.strip() can be computed.  A row is a sequence of    *)
(* cells and a snapshot a sequence of rows (the 'values' of the Sheets     *)
(* API, and the object that is pickled).  Python indexes from 0, TLA+      *)
(* from 1: data[0] is snapshot[1], row[2:] starts at row[3].               *)
(***************************************************************************)
EXTENDS Naturals, Sequences, FiniteSets

VARIABLES
    file,         \* PREVIOUS_STATE_FILE: [exists, bytes]
    fetched,      \* what the Sheets API call produced in this run: [error, data]
    current,      \* main's current_data (Option)
    previous,     \* main's previous_data (Option)
    changes,      \* main's changes / detect_changes' return value
    pc,           \* position of the run inside main
    saveCalls,    \* calls of save_current_state in this run
    sendCalls,    \* calls of send_space_alert in this run
    loadCalls,    \* calls of load_previous_state in this run
    detectCalls,  \* calls of detect_changes in this run
    lastSave,     \* how the latest save_current_state call of the run ended
    sendResult,   \* how send_space_alert ended in this run
    detectRaised, \* the try block of detect_changes raised in this run
    fileAtStart   \* the state file as the run found it

vars == <<file, fetched, current, previous, changes, pc, saveCalls, sendCalls,
          loadCalls, detectCalls, lastSave, sendResult, detectRaised, fileAtStart>>

----------------------------------------------------------------------------
(* Bounds of the model *)

\* most per-part value columns (C, D, ...) of a snapshot of the pure checks
MaxVals == 2
\* most part labels of a snapshot of the pure checks
MaxLabels == 2
\* most per-part value columns of a sheet fetched by a run
RunVals == 1
\* most part labels of a sheet fetched by a run
RunLabels == 1

----------------------------------------------------------------------------
(* Values *)

Min(a, b) == IF a < b THEN a ELSE b

Take(s, n) == SubSeq(s, 1, Min(n, Len(s)))

NoneV == [some |-> FALSE, val |-> <<>>]

Some(v) == [some |-> TRUE, val |-> v]

\* str literals used below
sEmpty == <<>>
s5 == <<"5">>
s5pad == <<" ", "5", " ">>
s50 == <<"5", ".", "0">>
s9 == <<"9">>
sDate == <<"d">>
sType == <<"T", "Y", "P", "E">>
sTOTAL == <<"T", "O", "T", "A", "L">>
sTOTAL_WEIGHTS == <<"T", "O", "T", "A", "L", " ", "W", "E", "I", "G", "H", "T", "S">>

AllLabels == << <<"A">>, <<"B">>, <<"C">>, <<"D">> >>

\* all sequences over S of length 0..n
RECURSIVE SeqsUpTo(_, _)
SeqsUpTo(S, n) ==
    IF n = 0 THEN {<<>>}
    ELSE LET shorter == SeqsUpTo(S, n - 1)
         IN  shorter \cup {Append(s, x) : s \in {t \in shorter : Len(t) = n - 1}, x \in S}

\* Row 1 of the sheet: [DATE, TOTAL WEIGHTS, value, value, ...], also cut short
ValueRows(cells, totals, maxVals) ==
    {<<>>, <<sDate>>} \cup
    {<<sDate, t>> \o vs : t \in totals, vs \in SeqsUpTo(cells, maxVals)}

\* Row 2 of the sheet: [empty, PARTS TYPE, label, label, ...], also cut short
LabelRows(maxLabels) ==
    {<<>>, <<sEmpty>>} \cup
    {<<sEmpty, sType>> \o Take(AllLabels, k) : k \in 0..maxLabels}

\* the sheets of range A1:H3 with all three rows present
SnapshotsOf(cells, totals, maxVals, maxLabels) ==
    {<<r0, r1, <<>> >> : r0 \in ValueRows(cells, totals, maxVals),
                         r1 \in LabelRows(maxLabels)}

Cells == {s5, s5pad, s50}

Totals == {s5, s5pad, s9}

Snapshots == SnapshotsOf(Cells, Totals, MaxVals, MaxLabels)

\* the sheets a run fetches: both leading cells of rows 1 and 2 present
RunSnapshots ==
    {<<<<sDate, t>> \o vs, <<sEmpty, sType>> \o Take(AllLabels, k), <<>>>> :
        t \in {s5, s9}, vs \in SeqsUpTo({s5, s9}, RunVals), k \in 0..RunLabels}


----------------------------------------------------------------------------
(* pickle: the state file holds a length-prefixed token stream.  A token   *)
(* is a sequence of one-character strings: <<"#", d>> opens a list of d    *)
(* items, <<"s">> \o cell is a str.  A stream cut short does not decode.   *)

Digits == <<"0", "1", "2", "3", "4", "5", "6", "7", "8", "9">>

LenTok(n) == <<"#", Digits[n + 1]>>

TokNum(tok) == CHOOSE n \in 0..(Len(Digits) - 1) : Digits[n + 1] = tok[2]

RECURSIVE DumpCells(_)
DumpCells(row) ==
    IF row = <<>> THEN <<>> ELSE << <<"s">> \o Head(row) >> \o DumpCells(Tail(row))

RECURSIVE DumpRows(_)
DumpRows(rows) ==
    IF rows = <<>> THEN <<>>
    ELSE <<LenTok(Len(Head(rows)))>> \o DumpCells(Head(rows)) \o DumpRows(Tail(rows))

\* a plausible slip: empty rows are not written
RECURSIVE DumpRows_dropEmpty(_)
DumpRows_dropEmpty(rows) ==
    IF rows = <<>> THEN <<>>
    ELSE (IF Head(rows) = <<>> THEN <<>>
          ELSE <<LenTok(Len(Head(rows)))>> \o DumpCells(Head(rows)))
         \o DumpRows_dropEmpty(Tail(rows))

pickle_dump_lose(state) == <<LenTok(Len(state))>> \o DumpRows_dropEmpty(state)
\* pickle.dump(state, f): the bytes written for a list of lists of str
pickle_dump(state) == <<LenTok(Len(state))>> \o DumpRows(state)

Undecodable == [ok |-> FALSE, val |-> <<>>, next |-> 0]

RECURSIVE ReadCells(_, _, _, _)
ReadCells(b, pos, n, acc) ==
    IF n = 0 THEN [ok |-> TRUE, val |-> acc, next |-> pos]
    ELSE IF pos > Len(b) THEN Undecodable
    ELSE IF b[pos][1] # "s" THEN Undecodable
    ELSE ReadCells(b, pos + 1, n - 1, Append(acc, Tail(b[pos])))

RECURSIVE ReadRows(_, _, _, _)
ReadRows(b, pos, n, acc) ==
    IF n = 0 THEN [ok |-> TRUE, val |-> acc, next |-> pos]
    ELSE IF pos > Len(b) THEN Undecodable
    ELSE IF b[pos][1] # "#" THEN Undecodable
    ELSE LET r == ReadCells(b, pos + 1, TokNum(b[pos]), <<>>)
         IN  IF ~r.ok THEN Undecodable
             ELSE ReadRows(b, r.next, n - 1, Append(acc, r.val))

\* pickle.load(f): ok = FALSE stands for the exception on a truncated stream
pickle_load(b) ==
    IF Len(b) = 0 THEN Undecodable
    ELSE IF b[1][1] # "#" THEN Undecodable
    ELSE ReadRows(b, 2, TokNum(b[1]), <<>>)

Missing == [exists |-> FALSE, bytes |-> <<>>]

FileOf(b) == [exists |-> TRUE, bytes |-> b]

----------------------------------------------------------------------------
(* get_sheet_data, load_previous_state, save_current_state *)

\* 'not data or len(data) < 3'
TooShort(data) == Len(data) = 0 \/ Len(data) < 3

\* a plausible slip: the row count of line 52 is not validated
get_sheet_data_unchecked(result) ==
    IF result.error # "none" THEN NoneV ELSE Some(result.data)
\* get_service + get_sheet_data: NoneV stands for the APIError raised
get_sheet_data(result) ==
    IF result.error # "none" THEN NoneV
    ELSE IF TooShort(result.data) THEN NoneV
    ELSE Some(result.data)

\* a plausible slip: the row count of line 148 is not validated
load_previous_state_unchecked(f) ==
    IF ~f.exists THEN NoneV
    ELSE LET r == pickle_load(f.bytes)
         IN  IF ~r.ok THEN NoneV ELSE Some(r.val)
\* load_previous_state(): NoneV stands for None
load_previous_state(f) ==
    IF ~f.exists THEN NoneV
    ELSE LET r == pickle_load(f.bytes)
         IN  IF ~r.ok THEN NoneV
             ELSE IF TooShort(r.val) THEN NoneV
             ELSE Some(r.val)

\* save_current_state(state) on file f: every way the call can end.
\*   skipped            the guard of line 161 returned
\*   ok                 the file holds the pickle of state
\*   error_before_write os.makedirs or open raised: the file is untouched
\*   error_mid_write    open(.., 'wb') truncated the file and the write or the
\*                      close raised: the file holds a proper prefix of the pickle
\* Both errors leave the function as APIError.
save_current_state(f, state) ==
    IF TooShort(state) THEN {[file |-> f, status |-> "skipped"]}
    ELSE LET b == pickle_dump(state)
         IN  {[file |-> FileOf(b), status |-> "ok"]}
             \cup {[file |-> f, status |-> "error_before_write"]}
             \cup {[file |-> FileOf(Take(b, k)), status |-> "error_mid_write"] :
                     k \in 0..(Len(b) - 1)}

SaveRaised(status) == status \in {"error_before_write", "error_mid_write"}

----------------------------------------------------------------------------
(* detect_changes *)

Whitespace == {" ", "\t", "\n", "\r"}

RECURSIVE LStrip(_)
LStrip(s) == IF s # <<>> /\ Head(s) \in Whitespace THEN LStrip(Tail(s)) ELSE s

RECURSIVE RStrip(_)
RStrip(s) ==
    IF s # <<>> /\ s[Len(s)] \in Whitespace THEN RStrip(SubSeq(s, 1, Len(s) - 1)) ELSE s

\* str(v).strip()
Strip(s) == RStrip(LStrip(s))

\* data[r][2:] behind the guard 'len(data) > r and len(data[r]) > 2'
RowFrom2(data, r) ==
    IF Len(data) > r
    THEN IF Len(data[r + 1]) > 2 THEN SubSeq(data[r + 1], 3, Len(data[r + 1])) ELSE <<>>
    ELSE <<>>

Pad(n) == [i \in 1..n |-> sEmpty]

\* lines 207-214: labels and current values cut to the shorter of the two
CutToShorter(headers, prevv, currv) ==
    IF Len(headers) # Len(currv)
    THEN LET compare_length == Min(Len(headers), Len(currv))
         IN  [headers |-> Take(headers, compare_length),
              curr |-> Take(currv, compare_length),
              prev |-> IF Len(prevv) > compare_length
                       THEN Take(prevv, compare_length) ELSE prevv]
    ELSE [headers |-> headers, curr |-> currv, prev |-> prevv]

\* a plausible slip: the shorter previous row is not padded
PadOrTrim_noPad(prevv, currv) ==
    IF Len(prevv) > Len(currv) THEN Take(prevv, Len(currv)) ELSE prevv
\* lines 217-224: previous values padded with '' or trimmed to the current length
PadOrTrim(prevv, currv) ==
    IF Len(prevv) < Len(currv) THEN prevv \o Pad(Len(currv) - Len(prevv))
    ELSE IF Len(prevv) > Len(currv) THEN Take(prevv, Len(currv))
    ELSE prevv

\* a plausible slip: only the previous value is stripped
Differs_rawCurrent(prev_val, curr_val) == Strip(prev_val) # curr_val
\* lines 235-238 and 244-247: prev_val != curr_val after str().strip()
Differs(prev_val, curr_val) == Strip(prev_val) # Strip(curr_val)

\* lines 229-240: the loop over range(len(part_headers)), i counted from 1
RECURSIVE CompareLoop(_, _, _, _, _)
CompareLoop(headers, prevv, currv, i, acc) ==
    IF i > Len(headers) THEN acc
    ELSE IF i > Len(prevv) \/ i > Len(currv)
         THEN CompareLoop(headers, prevv, currv, i + 1, acc)
    ELSE IF Differs(prevv[i], currv[i])
         THEN CompareLoop(headers, prevv, currv, i + 1,
                          Append(acc, <<headers[i], prevv[i], currv[i]>>))
    ELSE CompareLoop(headers, prevv, currv, i + 1, acc)

\* a plausible slip: the total is reported before the per-part changes
WithTotal_first(acc, previous_data, current_data) ==
    IF Len(previous_data[1]) > 1 /\ Len(current_data[1]) > 1
    THEN IF Differs(previous_data[1][2], current_data[1][2])
         THEN <<<<sTOTAL_WEIGHTS, previous_data[1][2], current_data[1][2]>>>> \o acc
         ELSE acc
    ELSE acc
\* lines 243-249: the change of the TOTAL WEIGHTS cell, appended to the changes
WithTotal(acc, previous_data, current_data) ==
    IF Len(previous_data[1]) > 1 /\ Len(current_data[1]) > 1
    THEN IF Differs(previous_data[1][2], current_data[1][2])
         THEN Append(acc, <<sTOTAL_WEIGHTS, previous_data[1][2], current_data[1][2]>>)
         ELSE acc
    ELSE acc

\* the try block of detect_changes, lines 182-255
DetectBody(previous_data, current_data) ==
    LET cut == CutToShorter(RowFrom2(current_data, 1),
                            RowFrom2(previous_data, 0),
                            RowFrom2(current_data, 0))
        prevv == PadOrTrim(cut.prev, cut.curr)
    IN  WithTotal(CompareLoop(cut.headers, prevv, cut.curr, 1, <<>>),
                  previous_data, current_data)

\* detect_changes(previous_data, current_data) when nothing raises;
\* previous is an Option, 'not previous_data' is None or the empty list
detect_changes(prev, current_data) ==
    IF ~prev.some THEN <<>>
    ELSE IF Len(prev.val) = 0 THEN <<>>
    ELSE DetectBody(prev.val, current_data)


----------------------------------------------------------------------------
(* main: one action per step of a run.  pc names the statement the run is  *)
(* about to execute.                                                       *)

\* what the Sheets API can answer: a full sheet, or one with fewer rows
\* (the API drops trailing empty rows)
FetchData ==
    RunSnapshots \cup {<<>>, <<<<sDate, s5>>>>, <<<<sDate, s5>>, <<sEmpty, sType>>>>}

\* the state file a first run can find: none, or one left by another tool
\* that decodes to fewer than three rows
FoundFiles ==
    {Missing, FileOf(pickle_dump(<<>>)),
     FileOf(pickle_dump(<<<<sDate, s5>>, <<sEmpty, sType>>>>))}

RunStart ==
    /\ fetched = [error |-> "none", data |-> <<>>]
    /\ current = NoneV
    /\ previous = NoneV
    /\ changes = <<>>
    /\ pc = "fetch"
    /\ saveCalls = 0
    /\ sendCalls = 0
    /\ loadCalls = 0
    /\ detectCalls = 0
    /\ lastSave = "none"
    /\ sendResult = "none"
    /\ detectRaised = FALSE

Init ==
    /\ file \in FoundFiles
    /\ fileAtStart = file
    /\ RunStart

\* lines 268-270: SPACE_WEBHOOK_URL is not set; the ValueError leaves main
\* through the handler of line 312 before anything is fetched
ConfigError ==
    /\ pc = "fetch"
    /\ fetched' = [error |-> "config", data |-> <<>>]
    /\ pc' = "done"
    /\ UNCHANGED <<file, current, previous, changes, saveCalls, sendCalls, loadCalls,
                   detectCalls, lastSave, sendResult, detectRaised, fileAtStart>>

\* lines 275-278: get_service() and get_sheet_data(service); an APIError
\* leaves main through the handler of line 308
Fetch ==
    /\ pc = "fetch"
    /\ \E err \in {"none", "service", "api"}, data \in FetchData :
          /\ fetched' = [error |-> err, data |-> IF err = "none" THEN data ELSE <<>>]
          /\ current' = get_sheet_data(fetched')
    /\ pc' = IF current'.some THEN "load" ELSE "done"
    /\ UNCHANGED <<file, previous, changes, saveCalls, sendCalls, loadCalls,
                   detectCalls, lastSave, sendResult, detectRaised, fileAtStart>>

\* line 283: 'if not previous_data'
BranchOnPrevious(prev) ==
    IF ~prev.some THEN "save_baseline"
    ELSE IF Len(prev.val) = 0 THEN "save_baseline"
    ELSE "detect"

\* lines 281-283
Load ==
    /\ pc = "load"
    /\ previous' = load_previous_state(file)
    /\ loadCalls' = loadCalls + 1
    /\ pc' = BranchOnPrevious(previous')
    /\ UNCHANGED <<file, fetched, current, changes, saveCalls, sendCalls,
                   detectCalls, lastSave, sendResult, detectRaised, fileAtStart>>

\* one call save_current_state(current_data): the run goes on at onReturn,
\* or at onRaise when the call raised APIError
SaveAt(onReturn, onRaise) ==
    /\ \E o \in save_current_state(file, current.val) :
          /\ file' = o.file
          /\ lastSave' = o.status
          /\ pc' = IF SaveRaised(o.status) THEN onRaise ELSE onReturn
    /\ saveCalls' = saveCalls + 1
    /\ UNCHANGED <<fetched, current, previous, changes, sendCalls, loadCalls,
                   detectCalls, sendResult, detectRaised, fileAtStart>>

\* line 286, outside the inner try: an APIError goes to the handler of line 308
SaveBaseline ==
    /\ pc = "save_baseline"
    /\ SaveAt("done", "done")

\* line 293: 'if changes'
BranchOnChanges(chg) == IF chg # <<>> THEN "send" ELSE "save_unchanged"

\* a plausible slip: the exception leaves detect_changes and main unhandled
DetectHandler_reraise == "done"
\* where the run goes when the try block of detect_changes raised:
\* the handler of line 256, which saves at line 260
DetectHandler == "save_in_detect"

\* line 292, detect_changes returning from its try block (line 255), or
\* raising inside it: a statement of lines 182-254, a print among them, can
\* raise (OSError or UnicodeEncodeError on stdout, MemoryError)
Detect ==
    /\ pc = "detect"
    /\ detectCalls' = detectCalls + 1
    /\ \E raised \in BOOLEAN :
          /\ detectRaised' = raised
          /\ changes' = IF raised THEN <<>> ELSE detect_changes(previous, current.val)
          /\ pc' = IF raised THEN DetectHandler ELSE BranchOnChanges(changes')
    /\ UNCHANGED <<file, fetched, current, previous, saveCalls, sendCalls,
                   loadCalls, lastSave, sendResult, fileAtStart>>

\* line 260, in the handler of detect_changes: on return detect_changes
\* returns [] (line 263) and main goes on at line 293; an APIError leaves
\* detect_changes and is caught at line 303
SaveInDetect ==
    /\ pc = "save_in_detect"
    /\ SaveAt(BranchOnChanges(<<>>), "save_recover")

\* a plausible slip: the state is saved only when the alert was sent
AfterSend_dropOnFailure(result) ==
    IF result = "sent" THEN "save_sent" ELSE "done"
\* where main goes after send_space_alert: returned True (line 296),
\* returned False (line 299), or raised (handler of line 303)
AfterSend(result) ==
    IF result = "sent" THEN "save_sent"
    ELSE IF result = "failed" THEN "save_unsent"
    ELSE "save_recover"

\* line 295, send_space_alert: True, False on a RequestException (line 136),
\* or another exception that leaves it (float() of line 117 on a total such
\* as a superscript digit, which isdigit() accepts; a print that fails)
Send ==
    /\ pc = "send"
    /\ sendCalls' = sendCalls + 1
    /\ \E result \in {"sent", "failed", "raised"} :
          /\ sendResult' = result
          /\ pc' = AfterSend(result)
    /\ UNCHANGED <<file, fetched, current, previous, changes, saveCalls,
                   loadCalls, detectCalls, lastSave, detectRaised, fileAtStart>>

\* lines 296, 299, 302: inside the inner try, so an APIError of the save is
\* caught at line 303 and the run goes on at line 306
SaveSent ==
    /\ pc = "save_sent"
    /\ SaveAt("done", "save_recover")

SaveUnsent ==
    /\ pc = "save_unsent"
    /\ SaveAt("done", "save_recover")

SaveUnchanged ==
    /\ pc = "save_unchanged"
    /\ SaveAt("done", "save_recover")

\* line 306, in the handler of line 303: an APIError goes to line 308
SaveRecover ==
    /\ pc = "save_recover"
    /\ SaveAt("done", "done")

\* the scheduler starts the next run: a new process, the file is all it keeps
NextRun ==
    /\ pc = "done"
    /\ fetched' = [error |-> "none", data |-> <<>>]
    /\ current' = NoneV
    /\ previous' = NoneV
    /\ changes' = <<>>
    /\ pc' = "fetch"
    /\ saveCalls' = 0
    /\ sendCalls' = 0
    /\ loadCalls' = 0
    /\ detectCalls' = 0
    /\ lastSave' = "none"
    /\ sendResult' = "none"
    /\ detectRaised' = FALSE
    /\ fileAtStart' = file
    /\ UNCHANGED file

Next ==
    \/ ConfigError
    \/ Fetch
    \/ Load
    \/ SaveBaseline
    \/ Detect
    \/ SaveInDetect
    \/ Send
    \/ SaveSent
    \/ SaveUnsent
    \/ SaveUnchanged
    \/ SaveRecover
    \/ NextRun

Spec == Init /\ [][Next]_vars


----------------------------------------------------------------------------
(* detect_changes on its own: every pair of snapshots of the bounds *)

InitDetect ==
    /\ previous \in {NoneV} \cup {Some(s) : s \in Snapshots}
    /\ current \in {Some(s) : s \in Snapshots}
    /\ pc = "detect_call"
    /\ changes = <<>>
    /\ file = Missing
    /\ fileAtStart = Missing
    /\ fetched = [error |-> "none", data |-> <<>>]
    /\ saveCalls = 0
    /\ sendCalls = 0
    /\ loadCalls = 0
    /\ detectCalls = 0
    /\ lastSave = "none"
    /\ sendResult = "none"
    /\ detectRaised = FALSE

\* changes = detect_changes(previous_data, current_data)
DetectCall ==
    /\ pc = "detect_call"
    /\ changes' = detect_changes(previous, current.val)
    /\ detectCalls' = detectCalls + 1
    /\ pc' = "detect_returned"
    /\ UNCHANGED <<file, fetched, current, previous, saveCalls, sendCalls,
                   loadCalls, lastSave, sendResult, detectRaised, fileAtStart>>

NextDetect == DetectCall

SpecDetect == InitDetect /\ [][NextDetect]_vars

\* the pairs of SpecDetect together with the runs of Spec
InitDetectOrRun == InitDetect \/ Init

NextDetectOrRun == NextDetect \/ Next

SpecDetectAndRuns == InitDetectOrRun /\ [][NextDetectOrRun]_vars

----------------------------------------------------------------------------
(* the state store on its own: save_current_state(state), then             *)
(* load_previous_state(), for every state of the bounds, of any length     *)

AnyLengthSnapshots == {Take(s, k) : s \in Snapshots, k \in 0..3}

InitStore ==
    /\ file \in FoundFiles \cup {FileOf(pickle_dump(s)) : s \in RunSnapshots}
    /\ fileAtStart = file
    /\ current \in {Some(s) : s \in AnyLengthSnapshots}
    /\ previous = NoneV
    /\ pc = "store_save"
    /\ changes = <<>>
    /\ fetched = [error |-> "none", data |-> <<>>]
    /\ saveCalls = 0
    /\ sendCalls = 0
    /\ loadCalls = 0
    /\ detectCalls = 0
    /\ lastSave = "none"
    /\ sendResult = "none"
    /\ detectRaised = FALSE

\* save_current_state(state)
StoreSave ==
    /\ pc = "store_save"
    /\ SaveAt("store_load", "store_load")

\* load_previous_state()
StoreLoad ==
    /\ pc = "store_load"
    /\ previous' = load_previous_state(file)
    /\ loadCalls' = loadCalls + 1
    /\ pc' = "store_done"
    /\ UNCHANGED <<file, fetched, current, changes, saveCalls, sendCalls,
                   detectCalls, lastSave, sendResult, detectRaised, fileAtStart>>

NextStore == StoreSave \/ StoreLoad

SpecStore == InitStore /\ [][NextStore]_vars


----------------------------------------------------------------------------
(* Properties *)

\* what a following load_previous_state() would return
Persisted == load_previous_state(file)

\* the state file holds nothing load_previous_state can use: it is missing,
\* does not decode, or decodes to fewer than three rows
NoUsableState(f) ==
    \/ ~f.exists
    \/ ~pickle_load(f.bytes).ok
    \/ Len(pickle_load(f.bytes).val) < 3

\* C1: in a run with a valid previous snapshot and a non-empty change list,
\* no save precedes the call of send_space_alert, and the run ends only after
\* that one call and at least one call of save_current_state(current),
\* whether the alert was sent, failed or raised; if the last save of the run
\* succeeded, the persisted snapshot equals the fetched one.
C1_SaveAfterAlert ==
    (previous.some /\ changes # <<>>) =>
        /\ sendCalls = 0 => saveCalls = 0
        /\ pc = "done" =>
              /\ sendCalls = 1
              /\ saveCalls >= 1
              /\ lastSave = "ok" => Persisted = current

C1_Witness ==
    /\ pc = "done"
    /\ previous.some
    /\ changes # <<>>
    /\ sendResult = "failed"
    /\ lastSave = "ok"
    /\ Persisted = current
    /\ Persisted # previous

\* C2: a run calls save_current_state at most once.
C2_SaveAtMostOnce == saveCalls <= 1

\* C3: a save_current_state that fails after it has started writing leaves
\* the previously persisted valid snapshot in place: load_previous_state
\* returns after it what it returned before it.
C3_FailedSaveKeepsPrevious ==
    [][(/\ saveCalls' = saveCalls + 1
        /\ lastSave' = "error_mid_write"
        /\ load_previous_state(file).some)
       => load_previous_state(file') = load_previous_state(file)]_vars

\* C4: when the fetch fails (service or API error, or fewer than three rows
\* fetched) the run ends with no load, no detection, no alert and no save,
\* and the state file is the one the run found.
C4_FetchFailureTouchesNothing ==
    (pc # "fetch" /\ (\/ fetched.error \in {"service", "api"}
                      \/ fetched.error = "none" /\ Len(fetched.data) < 3)) =>
        /\ pc = "done"
        /\ loadCalls = 0
        /\ detectCalls = 0
        /\ sendCalls = 0
        /\ saveCalls = 0
        /\ file = fileAtStart

C4_Witness ==
    /\ pc = "done"
    /\ fetched.error = "none"
    /\ Len(fetched.data) = 2
    /\ ~NoUsableState(fileAtStart)
    /\ file = fileAtStart

\* C5: when the fetch succeeded and the state file found holds no usable
\* state, the run is baseline-only: no detection and no alert, exactly one
\* save_current_state(current), and once that save has succeeded a following
\* load returns exactly the current snapshot.
C5_BaselineOnly ==
    (loadCalls = 1 /\ NoUsableState(fileAtStart)) =>
        /\ ~previous.some
        /\ detectCalls = 0
        /\ sendCalls = 0
        /\ pc \in {"save_baseline", "done"}
        /\ pc = "done" =>
              /\ saveCalls = 1
              /\ lastSave = "ok" => Persisted = current

C5_Witness ==
    /\ pc = "done"
    /\ loadCalls = 1
    /\ fileAtStart.exists
    /\ ~pickle_load(fileAtStart.bytes).ok
    /\ sendCalls = 0
    /\ lastSave = "ok"
    /\ Persisted = current

\* C6: when change detection raises, the failure is swallowed: the change
\* list is empty, no alert is attempted, the run still reaches its end
\* through save_current_state(current), and if the last save of the run
\* succeeded the persisted snapshot is the current one.
C6_DetectFailureSwallowed ==
    detectRaised =>
        /\ changes = <<>>
        /\ sendCalls = 0
        /\ pc \in {"save_in_detect", "save_unchanged", "save_recover", "done"}
        /\ pc = "done" =>
              /\ saveCalls >= 1
              /\ lastSave = "ok" => Persisted = current

C6_Witness ==
    /\ detectRaised
    /\ pc = "done"
    /\ sendCalls = 0
    /\ lastSave = "ok"
    /\ Persisted = current
    /\ Persisted # previous

\* row[2:], whatever the length of row
RefFrom2(row) == [i \in 1..(IF Len(row) > 2 THEN Len(row) - 2 ELSE 0) |-> row[i + 2]]

RefChanged(triple) == Strip(triple[2]) # Strip(triple[3])

\* the reference of C7: labels and current values cut to n = min of their
\* lengths, previous values padded with "" or cut to n, and the triples whose
\* trimmed values differ, in position order
RefPerLabel(previous_data, current_data) ==
    LET labels == RefFrom2(current_data[2])
        curr == RefFrom2(current_data[1])
        prev == RefFrom2(previous_data[1])
        n == Min(Len(labels), Len(curr))
        triples == [i \in 1..n |->
                      <<labels[i], IF i <= Len(prev) THEN prev[i] ELSE sEmpty, curr[i]>>]
    IN  SelectSeq(triples, RefChanged)

\* C7: for a previous snapshot that is not absent, the result of
\* detect_changes starts with exactly the reference list of per-label
\* changes, followed by at most one more element, the TOTAL WEIGHTS change.
C7_PerLabelMatchesReference ==
    (pc = "detect_returned" /\ previous.some) =>
        LET ref == RefPerLabel(previous.val, current.val)
        IN  /\ Len(changes) \in {Len(ref), Len(ref) + 1}
            /\ SubSeq(changes, 1, Len(ref)) = ref
            /\ Len(changes) = Len(ref) + 1 => changes[Len(changes)][1] = sTOTAL_WEIGHTS

\* a new trailing column: ("B", "", v) is reported after a change of "A"
C7_Witness ==
    /\ pc = "detect_returned"
    /\ previous.some
    /\ Len(previous.val[1]) = 3
    /\ Len(current.val[1]) = 4
    /\ Len(current.val[2]) = 4
    /\ current.val[1][3] = s50
    /\ Len(changes) >= 2
    /\ changes[1] = <<AllLabels[1], s5, s50>>
    /\ changes[2] = <<AllLabels[2], sEmpty, s5pad>>

\* both snapshots have a TOTAL WEIGHTS cell and the trimmed cells differ
TotalDiffers ==
    /\ previous.some
    /\ Len(previous.val[1]) > 1
    /\ Len(current.val[1]) > 1
    /\ Strip(previous.val[1][2]) # Strip(current.val[1][2])

\* C8 as stated: when the trimmed totals differ, the last element of the
\* result is the change labelled "TOTAL" with the previous and current total.
C8_TotalLastLabelTOTAL ==
    (pc = "detect_returned" /\ TotalDiffers) =>
        /\ changes # <<>>
        /\ changes[Len(changes)] = <<sTOTAL, previous.val[1][2], current.val[1][2]>>

\* C8 amended: when the trimmed totals differ, the last element of the result
\* is the change labelled "TOTAL WEIGHTS" with the previous and current total
\* cells as stored, after all per-label changes.
C8_TotalLastLabelTotalWeights ==
    (pc = "detect_returned" /\ TotalDiffers) =>
        /\ changes # <<>>
        /\ changes[Len(changes)] =
              <<sTOTAL_WEIGHTS, previous.val[1][2], current.val[1][2]>>
        /\ SubSeq(changes, 1, Len(changes) - 1) = RefPerLabel(previous.val, current.val)

C8_Witness ==
    /\ pc = "detect_returned"
    /\ TotalDiffers
    /\ Len(changes) = 3
    /\ changes[3] = <<sTOTAL_WEIGHTS, s5pad, s9>>

\* C9: detect_changes(S, S) is empty for every snapshot S of three rows, and
\* a run whose fetched snapshot equals the loaded one detects nothing and
\* calls send_space_alert never.
C9_DetectIdempotent ==
    (previous = current /\ detectCalls = 1) =>
        /\ changes = <<>>
        /\ sendCalls = 0
        /\ pc \in {"detect_returned", "save_in_detect", "save_unchanged",
                   "save_recover", "done"}

C9_Witness ==
    /\ pc = "detect_returned"
    /\ previous = current
    /\ Len(current.val[1]) = 4
    /\ Len(current.val[2]) = 3
    /\ current.val[1][2] = s5pad
    /\ current.val[1][3] = s5pad
    /\ changes = <<>>

\* C10: after save_current_state(state) and load_previous_state(): a state
\* of fewer than three rows was skipped, the file is untouched and the load
\* returns what it returned before; a state of three rows was not skipped,
\* and when the save succeeded the load returns a snapshot equal to it.
C10_SaveLoadRoundTrip ==
    pc = "store_done" =>
        IF Len(current.val) < 3
        THEN /\ lastSave = "skipped"
             /\ file = fileAtStart
             /\ previous = load_previous_state(fileAtStart)
        ELSE /\ lastSave # "skipped"
             /\ lastSave = "ok" => previous = current

C10_Witness ==
    /\ pc = "store_done"
    /\ lastSave = "ok"
    /\ previous = current
    /\ current.val[1] = <<sDate, s5pad, s50, s5pad>>
    /\ current.val[3] = <<>>
    /\ load_previous_state(fileAtStart) # previous

=============================================================================
